---------------------------- MODULE Spec2Model ----------------------------
(***************************************************************************)
(* State-machine model of the pgp key manager: the SQLite record store     *)
(* (class Db, schema.sql), the key lifecycle manager (class KeyManager)    *)
(* and the interactive session of pgp-tool.ts with its passphrase cache.   *)
(*                                                                         *)
(* Columns that no operation below reads or branches on (algorithm,        *)
(* key_size, can_*, expires_at, revoked, revocation_reason, created_at,    *)
(* prefer_inline_pgp, keyserver_url) are left out of the rows; updated_at, *)
(* which is written and never read, is kept as a column name only, so that *)
(* an UPDATE of a table without that column fails as it does in SQLite.    *)
(***************************************************************************)
EXTENDS Integers, Sequences, FiniteSets, TLC

(***************************************************************************)
(* Bounds of the model.                                                    *)
(***************************************************************************)
\* key materials the environment can supply (clipboard, keyring, generator)
MaxKeys == 2
\* cap on the AUTOINCREMENT counters of keypair and contact
MaxId == 2
\* the wall clock runs from 0 to MaxClock
MaxClock == 1
\* lines of a gpg --with-colons listing
MaxLines == 4

(***************************************************************************)
(* Values.                                                                 *)
(***************************************************************************)
\* SQL NULL / JavaScript null
NULL == 0 - 1

Keys == 1..MaxKeys

\* passphrases are strings, modelled as sequences of characters
NoPassphrase == <<>>
Hunter2 == <<"h", "u", "n", "t", "e", "r", "2">>
CorrectHorse == <<"c", "o", "r", "r", "e", "c", "t", "h", "o", "r", "s", "e">>
WrongPass == <<"w", "r", "o", "n", "g">>
Passphrases == {NoPassphrase, Hunter2, CorrectHorse, WrongPass}

\* The key material k: its fingerprint, the email of its primary user id and
\* the passphrase its private half is encrypted with (NoPassphrase: stored
\* in the clear).  Keys k and k + 2 carry the same email.
FingerprintOf(k) == k
EmailOf(k) == 1 + ((k - 1) % 2)
PassOf(k) == IF k = 1 THEN NoPassphrase ELSE IF k % 2 = 0 THEN CorrectHorse ELSE Hunter2

\* An armored block as pasted, read from the clipboard or exported by gpg:
\* its BEGIN PGP ... KEY BLOCK marker and the key it parses to (0: the
\* payload does not parse).
Blobs == [marker : {"PUBLIC", "PRIVATE", "NONE"}, key : Keys \cup {0}]
PublicBlob(k) == [marker |-> "PUBLIC", key |-> k]
PrivateBlob(k) == [marker |-> "PRIVATE", key |-> k]

\* Text values are numbers whose decimal digits are the characters:
\* 1 is "a", 2 is "A", 3 is "b", 4 is "%" and 5 is "_", so 13 is "ab" and 0
\* is the empty string.
LowerA == 1
UpperA == 2
Percent == 4
Underscore == 5

RECURSIVE Chars(_)
Chars(text) == IF text = 0 THEN <<>> ELSE Append(Chars(text \div 10), text % 10)

\* display names and note texts
Names == {1, 2}
Notes == {1}

VARIABLES
    db,               \* the SQLite file: tables keypair, contact, settings, sqlite_sequence
    oldJson,          \* the legacy db/data.json file
    passphraseCache,  \* pgp-tool.ts: Map<number, string> of the running process
    pc,               \* where the interactive session stands
    now,              \* the wall clock
    last              \* the operation that completed last, with its inputs and outcome

vars == <<db, oldJson, passphraseCache, pc, now, last>>

(***************************************************************************)
(* Record Store: db.ts (class Db) and schema.sql.                          *)
(***************************************************************************)
boolToInt(value) == IF value THEN 1 ELSE 0

intToBool(value) == value = 1

KeypairColumns ==
    {"id", "name", "email", "fingerprint", "public_key", "private_key",
     "passphrase_protected", "last_used_at", "is_default"}

ContactColumns ==
    {"id", "name", "email", "fingerprint", "trusted", "last_verified_at", "notes"}

SettingsColumns == {"id", "default_keypair_id", "auto_sign_messages"}

Columns(table) ==
    CASE table = "keypair" -> KeypairColumns
      [] table = "contact" -> ContactColumns
      [] table = "settings" -> SettingsColumns

\* the column names an SQL statement on the table may use
SchemaColumns(table) ==
    IF table = "settings" THEN SettingsColumns ELSE Columns(table) \cup {"updated_at"}

\* columns declared NOT NULL
NotNullColumns(table) ==
    CASE table = "keypair" -> KeypairColumns \ {"last_used_at"}
      [] table = "contact" -> ContactColumns \ {"last_verified_at", "notes"}
      [] table = "settings" -> {"id", "auto_sign_messages"}

\* UniqueColumns with the UNIQUE of keypair.email left out of the schema
UniqueColumnsWithoutEmail(table) ==
    CASE table = "keypair" -> {"id", "fingerprint"}
      [] table = "contact" -> {"id", "fingerprint"}
      [] table = "settings" -> {"id"}

\* columns declared UNIQUE (the primary key included)
UniqueColumns(table) ==
    CASE table = "keypair" -> {"id", "email", "fingerprint"}
      [] table = "contact" -> {"id", "fingerprint"}
      [] table = "settings" -> {"id"}

\* the boolean fields Db converts with boolToInt / intToBool
BooleanColumns(table) ==
    CASE table = "keypair" -> {"passphrase_protected", "is_default"}
      [] table = "contact" -> {"trusted"}
      [] table = "settings" -> {"auto_sign_messages"}

\* the database file before the first start
EmptyDisk ==
    [keypair |-> {}, contact |-> {}, settings |-> {},
     sqlite_sequence |-> [keypair |-> 0, contact |-> 0]]

\* the row of INSERT OR IGNORE INTO settings
DefaultSettings == [id |-> 1, default_keypair_id |-> NULL, auto_sign_messages |-> 0]

\* The constraints of schema.sql on a table's rows: NOT NULL, UNIQUE, the
\* CHECK (id = 1) of settings and the foreign key of default_keypair_id
\* (better-sqlite3 opens every connection with foreign keys enforced).
ConstraintsHold(d, table) ==
    /\ \A r \in d[table] : \A c \in NotNullColumns(table) : r[c] # NULL
    /\ \A r1, r2 \in d[table] :
         (\E c \in UniqueColumns(table) : r1[c] = r2[c]) => r1 = r2
    /\ table = "settings" =>
         \A r \in d.settings :
            /\ r.id = 1
            /\ r.default_keypair_id # NULL =>
                 \E k \in d.keypair : k.id = r.default_keypair_id

\* Db.initializeSchema: CREATE TABLE IF NOT EXISTS ...; INSERT OR IGNORE INTO settings
initializeSchema(d) ==
    IF \E r \in d.settings : r.id = DefaultSettings.id
    THEN d
    ELSE [d EXCEPT !.settings = @ \cup {DefaultSettings}]

\* SqlInsert on a table whose id is declared without AUTOINCREMENT: the new
\* row gets the largest id in the table + 1
SqlInsertMaxRowid(d, table, record) ==
    LET MaxOf(S) == IF S = {} THEN 0 ELSE CHOOSE x \in S : \A y \in S : y <= x
        id == MaxOf({r.id : r \in d[table]}) + 1
        row == [c \in Columns(table) |->
                  IF c = "id" THEN id
                  ELSE IF c \in DOMAIN record THEN record[c] ELSE NULL]
        after == [d EXCEPT ![table] = @ \cup {row},
                           !.sqlite_sequence[table] = id]
    IN  IF DOMAIN record \subseteq SchemaColumns(table)
           /\ (\A r \in d[table] : \A c \in UniqueColumns(table) : r[c] # row[c])
           /\ ConstraintsHold(after, table)
        THEN [ok |-> TRUE, db |-> after, row |-> row]
        ELSE [ok |-> FALSE, db |-> d, row |-> NULL]

\* One INSERT statement on an AUTOINCREMENT table: the new row gets
\* sqlite_sequence + 1; a constraint failure leaves table and sequence as
\* they were.
SqlInsert(d, table, record) ==
    LET id == d.sqlite_sequence[table] + 1
        row == [c \in Columns(table) |->
                  IF c = "id" THEN id
                  ELSE IF c \in DOMAIN record THEN record[c] ELSE NULL]
        after == [d EXCEPT ![table] = @ \cup {row},
                           !.sqlite_sequence[table] = id]
    IN  IF DOMAIN record \subseteq SchemaColumns(table)
           /\ (\A r \in d[table] : \A c \in UniqueColumns(table) : r[c] # row[c])
           /\ ConstraintsHold(after, table)
        THEN [ok |-> TRUE, db |-> after, row |-> row]
        ELSE [ok |-> FALSE, db |-> d, row |-> NULL]


\* The LIKE operator of SQLite: % matches any run of characters, _ any one
\* character, and letters match without regard to case.
NoCase(c) == IF c = UpperA THEN LowerA ELSE c

RECURSIVE Like(_, _)
Like(pattern, text) ==
    IF pattern = <<>> THEN text = <<>>
    ELSE IF Head(pattern) = Percent
    THEN Like(Tail(pattern), text) \/ (text # <<>> /\ Like(pattern, Tail(text)))
    ELSE /\ text # <<>>
         /\ (Head(pattern) = Underscore \/ NoCase(Head(pattern)) = NoCase(Head(text)))
         /\ Like(Tail(pattern), Tail(text))

\* The WHERE clause Db.select builds: '=' for 'is', '!=' for 'is not', LIKE
\* and NOT LIKE with the value between two %.  A
\* comparison with NULL on either side is not true in SQL.
NoWhere == [key |-> "id", compare |-> "none", value |-> NULL]

SqlWhere(row, where) ==
    CASE where.compare = "none" -> TRUE
      [] where.compare = "is" ->
           row[where.key] # NULL /\ where.value # NULL /\ row[where.key] = where.value
      [] where.compare = "is not" ->
           row[where.key] # NULL /\ where.value # NULL /\ row[where.key] # where.value
      [] where.compare = "like" ->
           row[where.key] # NULL /\ where.value # NULL
           /\ Like(<<Percent>> \o Chars(where.value) \o <<Percent>>, Chars(row[where.key]))
      [] where.compare = "not like" ->
           row[where.key] # NULL /\ where.value # NULL
           /\ ~Like(<<Percent>> \o Chars(where.value) \o <<Percent>>, Chars(row[where.key]))

\* the conversion of Db.select at the read boundary
ConvertRow(table, row) ==
    [c \in DOMAIN row |->
       IF c \in BooleanColumns(table) THEN intToBool(row[c]) ELSE row[c]]

\* Db.select on keypair or contact: the matching rows, converted
select(d, table, where) ==
    {ConvertRow(table, r) : r \in {x \in d[table] : SqlWhere(x, where)}}

\* Db.select on settings: SELECT * FROM settings WHERE id = 1
selectSettings(d) ==
    IF \E r \in d.settings : r.id = 1
    THEN [ok |-> TRUE, row |-> ConvertRow("settings", CHOOSE r \in d.settings : r.id = 1)]
    ELSE [ok |-> FALSE, row |-> NULL]

\* rows[0] of a result: SQLite returns the rows in rowid order
FirstRow(rows) == CHOOSE r \in rows : \A x \in rows : r.id <= x.id

\* Db.insert on keypair or contact.  value: the fields the caller gives;
\* t: new Date().  Returns the row as read back (unconverted).
insert(d, table, value, t) ==
    LET stamped == [c \in (DOMAIN value \cup {"updated_at"}) |->
                      IF c = "updated_at" THEN t ELSE value[c]]
        record == [c \in (DOMAIN stamped \cup BooleanColumns(table)) |->
                     IF c \in BooleanColumns(table)
                     THEN (IF c \in DOMAIN stamped THEN boolToInt(stamped[c]) ELSE 0)
                     ELSE stamped[c]]
        res == SqlInsert(d, table, record)
    IN  IF res.ok
        THEN [ok |-> TRUE, db |-> res.db, row |-> res.row, err |-> "none"]
        ELSE [ok |-> FALSE, db |-> d, row |-> NULL,
              err |-> IF DOMAIN record \subseteq SchemaColumns(table)
                      THEN "ConstraintViolation" ELSE "SqlError"]

\* Db.insert on settings: UPDATE settings SET ... WHERE id = 1, then select
insertSettings(d, updates) ==
    LET params == [c \in DOMAIN updates |->
                     IF c \in BooleanColumns("settings")
                     THEN boolToInt(updates[c]) ELSE updates[c]]
        after == [d EXCEPT !.settings =
                    {IF r.id = 1
                     THEN [c \in DOMAIN r |-> IF c \in DOMAIN params THEN params[c] ELSE r[c]]
                     ELSE r : r \in @}]
    IN  IF DOMAIN updates = {} \/ ~(DOMAIN updates \subseteq SettingsColumns)
        THEN [ok |-> FALSE, db |-> d, row |-> NULL, err |-> "SqlError"]
        ELSE IF ~ConstraintsHold(after, "settings")
        THEN [ok |-> FALSE, db |-> d, row |-> NULL, err |-> "ConstraintViolation"]
        ELSE [ok |-> selectSettings(after).ok, db |-> after,
              row |-> selectSettings(after).row,
              err |-> IF selectSettings(after).ok THEN "none" ELSE "Error"]

\* Db.update without the "if (key === 'id') continue" of its SET list
updateWithId(d, table, where, updates, t) ==
    LET record == [c \in (DOMAIN updates \cup {"updated_at"}) |->
                     IF c = "updated_at" THEN t
                     ELSE IF c \in BooleanColumns(table) THEN boolToInt(updates[c])
                     ELSE updates[c]]
        setPairs == DOMAIN record
        after == [d EXCEPT ![table] =
                    {IF r[where.key] # NULL /\ where.value # NULL /\ r[where.key] = where.value
                     THEN [c \in DOMAIN r |-> IF c \in setPairs THEN record[c] ELSE r[c]]
                     ELSE r : r \in @}]
    IN  IF ~(setPairs \subseteq SchemaColumns(table)) \/ where.key \notin Columns(table)
        THEN [ok |-> FALSE, db |-> d, err |-> "SqlError"]
        ELSE IF Cardinality(after[table]) # Cardinality(d[table])
                \/ ~ConstraintsHold(after, table)
        THEN [ok |-> FALSE, db |-> d, err |-> "ConstraintViolation"]
        ELSE [ok |-> TRUE, db |-> after, err |-> "none"]

\* Db.update: UPDATE table SET <updates, updated_at> WHERE key = value.
\* An id among the updates is skipped; a SET of a column the table does not
\* have (settings has no updated_at) is an SQL error.
update(d, table, where, updates, t) ==
    LET record == [c \in (DOMAIN updates \cup {"updated_at"}) |->
                     IF c = "updated_at" THEN t
                     ELSE IF c \in BooleanColumns(table) THEN boolToInt(updates[c])
                     ELSE updates[c]]
        setPairs == DOMAIN record \ {"id"}
        after == [d EXCEPT ![table] =
                    {IF r[where.key] # NULL /\ where.value # NULL /\ r[where.key] = where.value
                     THEN [c \in DOMAIN r |-> IF c \in setPairs THEN record[c] ELSE r[c]]
                     ELSE r : r \in @}]
    IN  IF ~(setPairs \subseteq SchemaColumns(table)) \/ where.key \notin Columns(table)
        THEN [ok |-> FALSE, db |-> d, err |-> "SqlError"]
        ELSE IF Cardinality(after[table]) # Cardinality(d[table])
                \/ ~ConstraintsHold(after, table)
        THEN [ok |-> FALSE, db |-> d, err |-> "ConstraintViolation"]
        ELSE [ok |-> TRUE, db |-> after, err |-> "none"]

\* Db.delete without the refusal of the settings table
deleteUnguarded(d, table, where) ==
    LET gone == {r \in d[table] :
                   r[where.key] # NULL /\ where.value # NULL /\ r[where.key] = where.value}
    IN  [ok |-> TRUE, db |-> [d EXCEPT ![table] = @ \ gone], err |-> "none"]

\* Db.delete on a schema whose foreign key has no ON DELETE SET NULL and is
\* not enforced
deleteWithoutSetNull(d, table, where) ==
    LET gone == {r \in d[table] :
                   r[where.key] # NULL /\ where.value # NULL /\ r[where.key] = where.value}
    IN  IF table = "settings"
        THEN [ok |-> FALSE, db |-> d, err |-> "Error"]
        ELSE [ok |-> TRUE, db |-> [d EXCEPT ![table] = @ \ gone], err |-> "none"]

\* Db.delete: refuses settings; DELETE FROM table WHERE key = value, with
\* ON DELETE SET NULL on settings.default_keypair_id.
delete(d, table, where) ==
    LET gone == {r \in d[table] :
                   r[where.key] # NULL /\ where.value # NULL /\ r[where.key] = where.value}
        kept == [d EXCEPT ![table] = @ \ gone]
        after == IF table = "keypair"
                 THEN [kept EXCEPT !.settings =
                         {IF \E g \in gone : g.id = s.default_keypair_id
                          THEN [s EXCEPT !.default_keypair_id = NULL]
                          ELSE s : s \in @}]
                 ELSE kept
    IN  IF table = "settings"
        THEN [ok |-> FALSE, db |-> d, err |-> "Error"]
        ELSE IF where.key \notin Columns(table)
        THEN [ok |-> FALSE, db |-> d, err |-> "SqlError"]
        ELSE [ok |-> TRUE, db |-> after, err |-> "none"]


(***************************************************************************)
(* The legacy data.json of the JSON prototype and its migration.           *)
(***************************************************************************)
OldKeypair(k, isDefault) ==
    [name |-> 1, email |-> EmailOf(k), fingerprint |-> FingerprintOf(k),
     public_key |-> k, private_key |-> k,
     passphrase_protected |-> (PassOf(k) # NoPassphrase),
     is_default |-> isDefault]

OldContact(fp, isTrusted, note) ==
    [name |-> 2, email |-> 1, fingerprint |-> fp, trusted |-> isTrusted,
     notes |-> note]

NoOldJson == [exists |-> FALSE, keypair |-> <<>>, contact |-> <<>>]

\* the data.json files the model starts from: none; one default keypair and
\* two contacts; two keypairs both flagged default (the prototype enforced
\* nothing)
LegacyFiles ==
    {NoOldJson,
     [exists |-> TRUE, keypair |-> <<OldKeypair(2, TRUE)>>,
      contact |-> <<OldContact(1, FALSE, NULL), OldContact(2, TRUE, 1)>>],
     [exists |-> TRUE, keypair |-> <<OldKeypair(1, TRUE), OldKeypair(2, TRUE)>>,
      contact |-> <<OldContact(1, FALSE, 1)>>]}

\* The two loops of migrateFromJson: each old row whose fingerprint is not
\* stored yet is inserted; an INSERT that throws ends the migration (the
\* catch around both loops).
RECURSIVE MigrateRows(_, _, _)
MigrateRows(d, table, rows) ==
    IF rows = <<>> THEN [ok |-> TRUE, db |-> d]
    ELSE LET old == Head(rows)
             record == [c \in DOMAIN old |->
                          IF c \in BooleanColumns(table) THEN boolToInt(old[c]) ELSE old[c]]
             res == SqlInsert(d, table, record)
         IN  IF \E r \in d[table] : r.fingerprint = old.fingerprint
             THEN MigrateRows(d, table, Tail(rows))
             ELSE IF res.ok THEN MigrateRows(res.db, table, Tail(rows))
             ELSE [ok |-> FALSE, db |-> d]

migrateFromJson(d, json) ==
    IF ~json.exists THEN d
    ELSE LET kp == MigrateRows(d, "keypair", json.keypair)
         IN  IF kp.ok THEN MigrateRows(kp.db, "contact", json.contact).db
             ELSE kp.db

\* new Db(): initializeSchema(), then migrateFromJson()
Constructor(d, json) == migrateFromJson(initializeSchema(d), json)

(***************************************************************************)
(* Key Metadata Extractor (key-utils) and the crypto collaborator.         *)
(***************************************************************************)
\* openpgp.decryptKey: unlocks with the passphrase the key is encrypted with
unlock(k, passphrase) == k # 0 /\ passphrase = PassOf(k)

\* true iff both blobs parse and their fingerprints are equal
verifyKeyPair(publicKey, privateKey) ==
    /\ publicKey.key # 0
    /\ privateKey.key # 0
    /\ FingerprintOf(publicKey.key) = FingerprintOf(privateKey.key)

\* extractPrivateKeyInfo(privateKey, passphrase || undefined): a supplied
\* passphrase is used to unlock first
extractPrivateKeyInfo(privateKey, passphrase) ==
    IF privateKey.key = 0 THEN [ok |-> FALSE, err |-> "KeyParseError"]
    ELSE IF passphrase # NoPassphrase /\ ~unlock(privateKey.key, passphrase)
    THEN [ok |-> FALSE, err |-> "InvalidPassphrase"]
    ELSE [ok |-> TRUE, err |-> "none",
          email |-> EmailOf(privateKey.key),
          fingerprint |-> FingerprintOf(privateKey.key),
          passphraseProtected |-> (PassOf(privateKey.key) # NoPassphrase)]

(***************************************************************************)
(* Key Lifecycle Manager: class KeyManager.                                *)
(***************************************************************************)
IsDefaultWhere == [key |-> "is_default", compare |-> "is", value |-> 1]

IdWhere(id) == [key |-> "id", value |-> id]

hasDefaultKeypair(d) == select(d, "keypair", IsDefaultWhere) # {}

\* keypairs[0] || null
getDefaultKeypair(d) ==
    IF select(d, "keypair", IsDefaultWhere) = {} THEN NULL
    ELSE FirstRow(select(d, "keypair", IsDefaultWhere))

\* for (const kp of rows) this.db.update('keypair', {key: 'id', value: kp.id}, updates)
RECURSIVE UpdateEach(_, _, _, _)
UpdateEach(d, rows, updates, t) ==
    IF rows = {} THEN d
    ELSE UpdateEach(update(d, "keypair", IdWhere(FirstRow(rows).id), updates, t).db,
                    rows \ {FirstRow(rows)}, updates, t)

\* the tail shared by importKeypair and importFromSystemGpg: unset the
\* current defaults when the new keypair becomes the default, then insert
\* (inside the try whose catch reports the error)
StoreImported(d, name, publicKey, privateKey, keyInfo, makeDefault, t) ==
    LET unset == IF makeDefault
                 THEN UpdateEach(d, select(d, "keypair", IsDefaultWhere),
                                 [is_default |-> FALSE], t)
                 ELSE d
        res == insert(unset, "keypair",
                      [name |-> name, email |-> keyInfo.email,
                       fingerprint |-> keyInfo.fingerprint,
                       public_key |-> publicKey.key, private_key |-> privateKey.key,
                       passphrase_protected |-> keyInfo.passphraseProtected,
                       last_used_at |-> NULL, is_default |-> makeDefault], t)
    IN  [db |-> res.db, err |-> res.err]

\* importKeypair without the verifyKeyPair step
importKeypairUnverified(d, setAsDefault, name, publicKey, privateKey, passphrase, setDefault, t) ==
    IF publicKey.marker # "PUBLIC" THEN [db |-> d, err |-> "InvalidPublicKeyFormat"]
    ELSE IF privateKey.marker # "PRIVATE" THEN [db |-> d, err |-> "InvalidPrivateKeyFormat"]
    ELSE IF ~extractPrivateKeyInfo(privateKey, passphrase).ok
    THEN [db |-> d, err |-> extractPrivateKeyInfo(privateKey, passphrase).err]
    ELSE StoreImported(d, name, publicKey, privateKey,
                       extractPrivateKeyInfo(privateKey, passphrase),
                       setAsDefault \/ setDefault, t)

\* KeyManager.importKeypair(setAsDefault)
importKeypair(d, setAsDefault, name, publicKey, privateKey, passphrase, setDefault, t) ==
    IF publicKey.marker # "PUBLIC" THEN [db |-> d, err |-> "InvalidPublicKeyFormat"]
    ELSE IF privateKey.marker # "PRIVATE" THEN [db |-> d, err |-> "InvalidPrivateKeyFormat"]
    ELSE IF ~verifyKeyPair(publicKey, privateKey) THEN [db |-> d, err |-> "KeyMismatch"]
    ELSE IF ~extractPrivateKeyInfo(privateKey, passphrase).ok
    THEN [db |-> d, err |-> extractPrivateKeyInfo(privateKey, passphrase).err]
    ELSE StoreImported(d, name, publicKey, privateKey,
                       extractPrivateKeyInfo(privateKey, passphrase),
                       setAsDefault \/ setDefault, t)


\* validate of the passphrase prompt of generateKeypair
MinPassphraseLength == 8

\* generateKeypair without the validate functions of its two passphrase
\* prompts
generateKeypairUnvalidated(d, setAsDefault, keypairName, passphrase, passphraseConfirm, k, t) ==
    LET unset == IF setAsDefault
                 THEN UpdateEach(d, select(d, "keypair", NoWhere), [is_default |-> FALSE], t)
                 ELSE d
        res == insert(unset, "keypair",
                      [name |-> keypairName, email |-> EmailOf(k),
                       fingerprint |-> FingerprintOf(k),
                       public_key |-> k, private_key |-> k,
                       passphrase_protected |-> TRUE,
                       last_used_at |-> NULL, is_default |-> setAsDefault], t)
    IN  [db |-> res.db, err |-> res.err]

\* KeyManager.generateKeypair(setAsDefault); k is the key openpgp.generateKey
\* returns for the entered name, email and passphrase.  An entry that a
\* validate function rejects is asked for again: nothing is generated or
\* stored for it.
generateKeypair(d, setAsDefault, keypairName, passphrase, passphraseConfirm, k, t) ==
    LET unset == IF setAsDefault
                 THEN UpdateEach(d, select(d, "keypair", NoWhere), [is_default |-> FALSE], t)
                 ELSE d
        res == insert(unset, "keypair",
                      [name |-> keypairName, email |-> EmailOf(k),
                       fingerprint |-> FingerprintOf(k),
                       public_key |-> k, private_key |-> k,
                       passphrase_protected |-> TRUE,
                       last_used_at |-> NULL, is_default |-> setAsDefault], t)
    IN  IF ~(Len(passphrase) >= MinPassphraseLength)
        THEN [db |-> d, err |-> "PassphraseTooShort"]
        ELSE IF passphraseConfirm # passphrase
        THEN [db |-> d, err |-> "PassphraseMismatch"]
        ELSE [db |-> res.db, err |-> res.err]

\* what the system keyring answers: gpg installed, secret keys listed, the
\* user's pick (or Cancel), and the two exports (marker "NONE": no output)
NoBlob == [marker |-> "NONE", key |-> 0]

\* KeyManager.importFromSystemGpg()
importFromSystemGpg(d, gpg, name, publicKey, privateKey, passphrase, setDefault, t) ==
    IF ~gpg.installed THEN [db |-> d, err |-> "GpgNotInstalled"]
    ELSE IF ~gpg.hasSecretKeys THEN [db |-> d, err |-> "NoSecretKeys"]
    ELSE IF gpg.cancel THEN [db |-> d, err |-> "Cancelled"]
    ELSE IF publicKey = NoBlob \/ privateKey = NoBlob THEN [db |-> d, err |-> "ExportFailed"]
    ELSE IF ~extractPrivateKeyInfo(privateKey, passphrase).ok
    THEN [db |-> d, err |-> extractPrivateKeyInfo(privateKey, passphrase).err]
    ELSE StoreImported(d, name, publicKey, privateKey,
                       extractPrivateKeyInfo(privateKey, passphrase), setDefault, t)

\* KeyManager.renameKeypair
renameKeypair(d, keypairId, newName, t) ==
    update(d, "keypair", IdWhere(keypairId), [name |-> newName], t).db

\* setDefaultKeypairById without the loop that unsets every keypair first
setDefaultKeypairByIdWithoutUnset(d, keypairId, t) ==
    update(d, "keypair", IdWhere(keypairId), [is_default |-> TRUE], t).db

\* KeyManager.setDefaultKeypairById (setDefaultKeypair has the same body)
setDefaultKeypairById(d, keypairId, t) ==
    update(UpdateEach(d, select(d, "keypair", NoWhere), [is_default |-> FALSE], t),
           "keypair", IdWhere(keypairId), [is_default |-> TRUE], t).db

\* deleteKeypairById deleting whatever the confirm prompt is answered
deleteKeypairByIdUnconfirmed(d, keypairId, confirm) ==
    [db |-> delete(d, "keypair", IdWhere(keypairId)).db, deleted |-> TRUE]

\* KeyManager.deleteKeypairById: the confirm prompt, then Db.delete
deleteKeypairById(d, keypairId, confirm) ==
    IF confirm
    THEN [db |-> delete(d, "keypair", IdWhere(keypairId)).db, deleted |-> TRUE]
    ELSE [db |-> d, deleted |-> FALSE]

\* KeyManager.renameContact
renameContact(d, contactId, newName, t) ==
    update(d, "contact", IdWhere(contactId), [name |-> newName], t).db

\* KeyManager.editContactNotes: notes.trim() || null
editContactNotes(d, contactId, notes, t) ==
    update(d, "contact", IdWhere(contactId), [notes |-> notes], t).db

\* toggleContactTrust clearing the timestamp when trust is withdrawn
toggleContactTrustClearing(d, contact, t) ==
    LET newTrustStatus == ~contact.trusted
    IN  update(d, "contact", IdWhere(contact.id),
               [trusted |-> newTrustStatus,
                last_verified_at |-> IF newTrustStatus THEN t ELSE NULL],
               t).db

\* KeyManager.toggleContactTrust(contact): contact is the row as selected
toggleContactTrust(d, contact, t) ==
    LET newTrustStatus == ~contact.trusted
    IN  update(d, "contact", IdWhere(contact.id),
               [trusted |-> newTrustStatus,
                last_verified_at |-> IF newTrustStatus THEN t ELSE contact.last_verified_at],
               t).db

\* KeyManager.deleteContact
deleteContact(d, contactId, confirm) ==
    IF confirm
    THEN [db |-> delete(d, "contact", IdWhere(contactId)).db, deleted |-> TRUE]
    ELSE [db |-> d, deleted |-> FALSE]


(***************************************************************************)
(* The interactive session: pgp-tool.ts.                                   *)
(***************************************************************************)
NoCache == [id \in {} |-> NoPassphrase]

\* a cache that holds one entry: storing one evicts what was stored
CacheSetEvicting(cache, id, passphrase) == [i \in {id} |-> passphrase]

\* passphraseCache.set(id, passphrase)
CacheSet(cache, id, passphrase) ==
    [i \in DOMAIN cache \cup {id} |-> IF i = id THEN passphrase ELSE cache[i]]

\* clearPassphraseCache()
clearPassphraseCache(cache) == NoCache

\* encryptMessage without the update of last_used_at
encryptMessageWithoutTouch(d, forSelf, t) ==
    IF ~forSelf THEN [db |-> d, err |-> "none"]
    ELSE IF ~hasDefaultKeypair(d) THEN [db |-> d, err |-> "NoDefaultKeypair"]
    ELSE IF getDefaultKeypair(d).public_key = 0 THEN [db |-> d, err |-> "KeyParseError"]
    ELSE [db |-> d, err |-> "none"]

\* encryptMessage(message, publicKeyArmored): with a recipient's key, or
\* with none (forSelf) to the default keypair
encryptMessage(d, forSelf, t) ==
    LET defaultKeypair == getDefaultKeypair(d)
    IN  IF ~forSelf THEN [db |-> d, err |-> "none"]
        ELSE IF ~hasDefaultKeypair(d) THEN [db |-> d, err |-> "NoDefaultKeypair"]
        ELSE IF defaultKeypair.public_key = 0 THEN [db |-> d, err |-> "KeyParseError"]
        ELSE [db |-> update(d, "keypair", IdWhere(defaultKeypair.id),
                            [last_used_at |-> t], t).db,
              err |-> "none"]

\* decryptMessage caching the entered passphrase before it is validated
decryptMessageCachingFirst(d, cache, entered, message, t) ==
    LET defaultKeypair == getDefaultKeypair(d)
        cached == defaultKeypair.id \in DOMAIN cache
        prompted == defaultKeypair.passphrase_protected /\ ~cached
        passphrase == IF ~defaultKeypair.passphrase_protected THEN NoPassphrase
                      ELSE IF cached THEN cache[defaultKeypair.id] ELSE entered
        cache2 == IF prompted THEN CacheSet(cache, defaultKeypair.id, passphrase) ELSE cache
    IN  IF ~hasDefaultKeypair(d)
        THEN [db |-> d, cache |-> cache, err |-> "NoDefaultKeypair",
              prompted |-> FALSE, used |-> NoPassphrase]
        ELSE IF ~unlock(defaultKeypair.private_key, passphrase)
        THEN [db |-> d, cache |-> cache2,
              err |-> IF prompted THEN "IncorrectPassphrase" ELSE "DecryptKeyError",
              prompted |-> prompted, used |-> passphrase]
        ELSE IF message # defaultKeypair.private_key
        THEN [db |-> d, cache |-> cache2, err |-> "DecryptError",
              prompted |-> prompted, used |-> passphrase]
        ELSE [db |-> update(d, "keypair", IdWhere(defaultKeypair.id),
                            [last_used_at |-> t], t).db,
              cache |-> cache2, err |-> "none",
              prompted |-> prompted, used |-> passphrase]

\* decryptMessage(encryptedMessage).  entered: what the user types when
\* prompted; message: the key the message is encrypted to (0: not a
\* readable message).
decryptMessage(d, cache, entered, message, t) ==
    LET defaultKeypair == getDefaultKeypair(d)
        cached == defaultKeypair.id \in DOMAIN cache
        prompted == defaultKeypair.passphrase_protected /\ ~cached
        passphrase == IF ~defaultKeypair.passphrase_protected THEN NoPassphrase
                      ELSE IF cached THEN cache[defaultKeypair.id] ELSE entered
        cache2 == IF prompted THEN CacheSet(cache, defaultKeypair.id, passphrase) ELSE cache
    IN  IF ~hasDefaultKeypair(d)
        THEN [db |-> d, cache |-> cache, err |-> "NoDefaultKeypair",
              prompted |-> FALSE, used |-> NoPassphrase]
        ELSE IF prompted /\ ~unlock(defaultKeypair.private_key, passphrase)
        THEN [db |-> d, cache |-> cache, err |-> "IncorrectPassphrase",
              prompted |-> TRUE, used |-> passphrase]
        ELSE IF ~unlock(defaultKeypair.private_key, passphrase)
        THEN [db |-> d, cache |-> cache2, err |-> "DecryptKeyError",
              prompted |-> prompted, used |-> passphrase]
        ELSE IF message # defaultKeypair.private_key
        THEN [db |-> d, cache |-> cache2, err |-> "DecryptError",
              prompted |-> prompted, used |-> passphrase]
        ELSE [db |-> update(d, "keypair", IdWhere(defaultKeypair.id),
                            [last_used_at |-> t], t).db,
              cache |-> cache2, err |-> "none",
              prompted |-> prompted, used |-> passphrase]

\* the top of main(): first-time setup when no keypair is the default
EnterMain(d) == IF hasDefaultKeypair(d) THEN "menu" ELSE "setup"

\* What `last` records of the step just taken: the operation, the id of the
\* row it was about (0: none), its outcome, the arguments it was given,
\* whether it prompted for a passphrase and the passphrase it unlocked the
\* key with.
NoArg == <<>>

Done(op, id, err, arg, prompted, used) ==
    [op |-> op, id |-> id, err |-> err, arg |-> arg,
     prompted |-> prompted, used |-> used]

Plain(op, id, err) == Done(op, id, err, NoArg, FALSE, NoPassphrase)

Init ==
    /\ oldJson \in LegacyFiles
    /\ db = Constructor(EmptyDisk, oldJson)
    /\ passphraseCache = NoCache
    /\ pc = EnterMain(db)
    /\ now = 0
    /\ last = Plain("start", 0, "none")

PublicInputs == {PublicBlob(k) : k \in Keys} \cup {NoBlob}
PrivateInputs == {PrivateBlob(k) : k \in Keys \cup {0}} \cup {NoBlob}
GpgAnswers ==
    {[installed |-> FALSE, hasSecretKeys |-> FALSE, cancel |-> FALSE],
     [installed |-> TRUE, hasSecretKeys |-> FALSE, cancel |-> FALSE],
     [installed |-> TRUE, hasSecretKeys |-> TRUE, cancel |-> TRUE],
     [installed |-> TRUE, hasSecretKeys |-> TRUE, cancel |-> FALSE]}
\* the prompts after the pick are reached only when a key was picked
Exports(gpg, blobs) == IF gpg.cancel \/ ~gpg.hasSecretKeys THEN {NoBlob} ELSE blobs
\* the default answer of the keypair name prompt
DefaultName == 1

\* time passes
Tick ==
    /\ now < MaxClock
    /\ now' = now + 1
    /\ last' = Plain("tick", 0, "none")
    /\ UNCHANGED <<db, oldJson, passphraseCache, pc>>

\* importKeypair from the setup menu (setAsDefault = true) or the key menu
ImportKeypair(setAsDefault, next) ==
    /\ db.sqlite_sequence.keypair < MaxId
    /\ \E publicKey \in PublicInputs, privateKey \in PrivateInputs,
          passphrase \in Passphrases, setDefault \in BOOLEAN :
         LET r == importKeypair(db, setAsDefault, DefaultName, publicKey, privateKey,
                                passphrase, setDefault, now)
         IN  /\ db' = r.db
             /\ last' = Done("import", 0, r.err,
                             [publicKey |-> publicKey, privateKey |-> privateKey],
                             FALSE, NoPassphrase)
    /\ pc' = next
    /\ UNCHANGED <<oldJson, passphraseCache, now>>

ImportFromSystemGpg(next) ==
    /\ db.sqlite_sequence.keypair < MaxId
    /\ \E gpg \in GpgAnswers :
       \E publicKey \in Exports(gpg, PublicInputs), privateKey \in Exports(gpg, PrivateInputs),
          passphrase \in Passphrases, setDefault \in BOOLEAN :
         LET r == importFromSystemGpg(db, gpg, DefaultName, publicKey, privateKey,
                                      passphrase, setDefault, now)
         IN  /\ db' = r.db
             /\ last' = Done("import-gpg", 0, r.err,
                             [publicKey |-> publicKey, privateKey |-> privateKey],
                             FALSE, NoPassphrase)
    /\ pc' = next
    /\ UNCHANGED <<oldJson, passphraseCache, now>>

\* the entries of the two passphrase prompts and the key the generator
\* returns: a key new to the store, encrypted with the passphrase entered
\* when the prompts accept it
GenerateKeypair(setAsDefault, next) ==
    /\ db.sqlite_sequence.keypair < MaxId
    /\ \E keypairName \in {DefaultName}, k \in Keys,
          passphrase \in Passphrases, passphraseConfirm \in Passphrases :
         /\ (Len(passphrase) >= MinPassphraseLength /\ passphraseConfirm = passphrase)
              => PassOf(k) = passphrase
         /\ \A r \in db.keypair : r.fingerprint # FingerprintOf(k)
         /\ LET r == generateKeypair(db, setAsDefault, keypairName, passphrase,
                                     passphraseConfirm, k, now)
            IN  /\ db' = r.db
                /\ last' = Done("generate", 0, r.err,
                                [passphrase |-> passphrase,
                                 passphraseConfirm |-> passphraseConfirm],
                                FALSE, NoPassphrase)
                /\ pc' = IF r.err \in {"PassphraseTooShort", "PassphraseMismatch"}
                         THEN pc ELSE next
    /\ UNCHANGED <<oldJson, passphraseCache, now>>

\* setupFirstKeypair(): main() goes on to its menu whatever the choice did
SetupImport == pc = "setup" /\ ImportKeypair(TRUE, "menu")

SetupImportGpg == pc = "setup" /\ ImportFromSystemGpg("menu")

SetupGenerate == pc = "setup" /\ GenerateKeypair(TRUE, "menu")

\* Exit in the setup menu: process.exit(0)
SetupExit ==
    /\ pc = "setup"
    /\ pc' = "exited"
    /\ last' = Plain("exit", 0, "none")
    /\ UNCHANGED <<db, oldJson, passphraseCache, now>>


\* MenuEncrypt with encryptMessage called outside the try of main(): its
\* error escapes to main().catch
MenuEncryptEscaping ==
    /\ pc = "menu"
    /\ \E forSelf \in BOOLEAN :
         LET r == encryptMessage(db, forSelf, now)
         IN  /\ db' = r.db
             /\ last' = Plain(IF forSelf THEN "encrypt" ELSE "encrypt-for",
                              IF forSelf /\ hasDefaultKeypair(db)
                              THEN getDefaultKeypair(db).id ELSE 0,
                              r.err)
             /\ pc' = IF r.err = "none" THEN "next" ELSE "exited"
             /\ passphraseCache' = IF r.err = "none" THEN passphraseCache
                                   ELSE clearPassphraseCache(passphraseCache)
    /\ UNCHANGED <<oldJson, now>>

\* main menu: Encrypt a message, for myself or for someone else
MenuEncrypt ==
    /\ pc = "menu"
    /\ \E forSelf \in BOOLEAN :
         LET r == encryptMessage(db, forSelf, now)
         IN  /\ db' = r.db
             /\ last' = Plain(IF forSelf THEN "encrypt" ELSE "encrypt-for",
                              IF forSelf /\ hasDefaultKeypair(db)
                              THEN getDefaultKeypair(db).id ELSE 0,
                              r.err)
    /\ pc' = "next"
    /\ UNCHANGED <<oldJson, passphraseCache, now>>

\* main menu: Decrypt a message
MenuDecrypt ==
    /\ pc = "menu"
    /\ \E entered \in Passphrases, message \in Keys \cup {0} :
         LET r == decryptMessage(db, passphraseCache, entered, message, now)
         IN  /\ db' = r.db
             /\ passphraseCache' = r.cache
             /\ last' = Done("decrypt",
                             IF hasDefaultKeypair(db) THEN getDefaultKeypair(db).id ELSE 0,
                             r.err, NoArg, r.prompted, r.used)
    /\ pc' = "next"
    /\ UNCHANGED <<oldJson, now>>

\* main menu: Manage keys
MenuKeys ==
    /\ pc = "menu"
    /\ pc' = "keys"
    /\ last' = Plain("keys", 0, "none")
    /\ UNCHANGED <<db, oldJson, passphraseCache, now>>

\* main menu: Exit
MenuExit ==
    /\ pc = "menu"
    /\ passphraseCache' = clearPassphraseCache(passphraseCache)
    /\ pc' = "exited"
    /\ last' = Plain("exit", 0, "none")
    /\ UNCHANGED <<db, oldJson, now>>

\* Back to main menu from a prompt of encrypt or decrypt: return main()
MenuBack ==
    /\ pc = "menu"
    /\ pc' = EnterMain(db)
    /\ last' = Plain("back", 0, "none")
    /\ UNCHANGED <<db, oldJson, passphraseCache, now>>

\* next-action menu: Perform another operation
NextContinue ==
    /\ pc = "next"
    /\ pc' = EnterMain(db)
    /\ last' = Plain("continue", 0, "none")
    /\ UNCHANGED <<db, oldJson, passphraseCache, now>>

\* next-action menu: Exit
NextExit ==
    /\ pc = "next"
    /\ passphraseCache' = clearPassphraseCache(passphraseCache)
    /\ pc' = "exited"
    /\ last' = Plain("exit", 0, "none")
    /\ UNCHANGED <<db, oldJson, now>>

\* showKeyManagementMenu and the menus below it
KeysImport == pc = "keys" /\ ImportKeypair(FALSE, "keys")

KeysImportGpg == pc = "keys" /\ ImportFromSystemGpg("keys")

KeysGenerate == pc = "keys" /\ GenerateKeypair(FALSE, "keys")

RenameKey ==
    /\ pc = "keys"
    /\ \E keypair \in select(db, "keypair", NoWhere), newName \in Names :
         /\ db' = renameKeypair(db, keypair.id, newName, now)
         /\ last' = Plain("rename", keypair.id, "none")
    /\ UNCHANGED <<oldJson, passphraseCache, pc, now>>

SetDefault ==
    /\ pc = "keys"
    /\ \E keypair \in select(db, "keypair", NoWhere) :
         /\ db' = setDefaultKeypairById(db, keypair.id, now)
         /\ last' = Done("set-default", keypair.id, "none",
                         [is_default |-> keypair.is_default], FALSE, NoPassphrase)
    /\ UNCHANGED <<oldJson, passphraseCache, pc, now>>

DeleteKey ==
    /\ pc = "keys"
    /\ \E keypair \in select(db, "keypair", NoWhere), confirm \in BOOLEAN :
         LET r == deleteKeypairById(db, keypair.id, confirm)
         IN  /\ db' = r.db
             /\ last' = Done("delete", keypair.id, IF r.deleted THEN "none" ELSE "Cancelled",
                             [confirm |-> confirm, deleted |-> r.deleted],
                             FALSE, NoPassphrase)
    /\ UNCHANGED <<oldJson, passphraseCache, pc, now>>

RenameContact ==
    /\ pc = "keys"
    /\ \E contact \in select(db, "contact", NoWhere), newName \in Names :
         /\ db' = renameContact(db, contact.id, newName, now)
         /\ last' = Plain("rename-contact", contact.id, "none")
    /\ UNCHANGED <<oldJson, passphraseCache, pc, now>>

EditContactNotes ==
    /\ pc = "keys"
    /\ \E contact \in select(db, "contact", NoWhere), notes \in Notes \cup {NULL} :
         /\ db' = editContactNotes(db, contact.id, notes, now)
         /\ last' = Plain("edit-notes", contact.id, "none")
    /\ UNCHANGED <<oldJson, passphraseCache, pc, now>>

ToggleContactTrust ==
    /\ pc = "keys"
    /\ \E contact \in select(db, "contact", NoWhere) :
         /\ db' = toggleContactTrust(db, contact, now)
         /\ last' = Plain("toggle-trust", contact.id, "none")
    /\ UNCHANGED <<oldJson, passphraseCache, pc, now>>

DeleteContact ==
    /\ pc = "keys"
    /\ \E contact \in select(db, "contact", NoWhere), confirm \in BOOLEAN :
         LET r == deleteContact(db, contact.id, confirm)
         IN  /\ db' = r.db
             /\ last' = Done("delete-contact", contact.id,
                             IF r.deleted THEN "none" ELSE "Cancelled",
                             [confirm |-> confirm, deleted |-> r.deleted],
                             FALSE, NoPassphrase)
    /\ UNCHANGED <<oldJson, passphraseCache, pc, now>>

\* Back to main menu: return main()
KeysBack ==
    /\ pc = "keys"
    /\ pc' = EnterMain(db)
    /\ last' = Plain("back", 0, "none")
    /\ UNCHANGED <<db, oldJson, passphraseCache, now>>

\* process.on('SIGINT'), and the ExitPromptError branch of main().catch
Sigint ==
    /\ pc # "exited"
    /\ passphraseCache' = clearPassphraseCache(passphraseCache)
    /\ pc' = "exited"
    /\ last' = Plain("sigint", 0, "none")
    /\ UNCHANGED <<db, oldJson, now>>

\* main().catch: an error no handler inside main() caught
UnhandledError ==
    /\ pc # "exited"
    /\ passphraseCache' = clearPassphraseCache(passphraseCache)
    /\ pc' = "exited"
    /\ last' = Plain("error", 0, "Unhandled")
    /\ UNCHANGED <<db, oldJson, now>>

\* The program is started again: a new process with an empty Map, new Db()
\* and main().  Held back when the migration would pass the id cap.
Restart ==
    /\ pc = "exited"
    /\ Constructor(db, oldJson).sqlite_sequence.keypair <= MaxId
    /\ Constructor(db, oldJson).sqlite_sequence.contact <= MaxId
    /\ db' = Constructor(db, oldJson)
    /\ passphraseCache' = NoCache
    /\ pc' = EnterMain(db')
    /\ last' = Plain("start", 0, "none")
    /\ UNCHANGED <<oldJson, now>>

\* The session over the keypairs: every choice of the menus but the four
\* contact operations, which touch no keypair, no setting and no cache and
\* have a specification of their own below.
Next ==
    \/ Tick
    \/ SetupImport \/ SetupImportGpg \/ SetupGenerate \/ SetupExit
    \/ MenuEncrypt \/ MenuDecrypt \/ MenuKeys \/ MenuExit \/ MenuBack
    \/ NextContinue \/ NextExit
    \/ KeysImport \/ KeysImportGpg \/ KeysGenerate
    \/ RenameKey \/ SetDefault \/ DeleteKey
    \/ KeysBack
    \/ Sigint \/ UnhandledError \/ Restart

Spec == Init /\ [][Next]_vars

\* The session over the contacts: the contact operations of the key menu,
\* the clock and the restarts (whose migration inserts contacts again).
NextContacts ==
    \/ Tick
    \/ MenuKeys
    \/ RenameContact \/ EditContactNotes \/ ToggleContactTrust \/ DeleteContact
    \/ KeysBack
    \/ Sigint \/ Restart

SpecContacts == Init /\ [][NextContacts]_vars

\* The two deletes of the key menu, of a keypair and of a contact, with the
\* restarts between them.
NextDeletes ==
    \/ MenuKeys
    \/ DeleteKey \/ DeleteContact
    \/ KeysBack
    \/ SetupExit \/ MenuExit \/ Restart

SpecDeletes == Init /\ [][NextDeletes]_vars

(***************************************************************************)
(* The Record Store under a caller of its own: the methods of Db called    *)
(* directly, in any order, as the database test script does.               *)
(***************************************************************************)
Emails == {1, 2}

\* rows a caller hands to Db.insert; the last one leaves the email out
KeypairValues ==
    {[name |-> 1, email |-> e, fingerprint |-> FingerprintOf(k), public_key |-> k,
      private_key |-> k, passphrase_protected |-> FALSE, is_default |-> isDefault] :
        e \in Emails, k \in Keys, isDefault \in BOOLEAN}
    \cup {[name |-> 1, fingerprint |-> FingerprintOf(1), public_key |-> 1,
           private_key |-> 1]}

ContactValues ==
    {[name |-> 2, email |-> 1, fingerprint |-> FingerprintOf(k), trusted |-> isTrusted] :
        k \in Keys, isTrusted \in BOOLEAN}

InsertValues(table) == IF table = "keypair" THEN KeypairValues ELSE ContactValues

\* the fields a caller hands to Db.insert('settings', ...)
SettingsUpdates ==
    {[default_keypair_id |-> id] : id \in (1..MaxId) \cup {NULL}}
    \cup {[auto_sign_messages |-> b] : b \in BOOLEAN}
    \cup {[id |-> 2]}

\* the fields a caller hands to Db.update
UpdateValues(table) ==
    CASE table = "keypair" ->
           {[is_default |-> b] : b \in BOOLEAN} \cup {[email |-> e] : e \in Emails}
      [] table = "contact" -> {[trusted |-> b] : b \in BOOLEAN}
      [] table = "settings" -> {[auto_sign_messages |-> TRUE]}

\* settings.default_keypair_id as a caller reads it before a call
DefaultKeypairId(d) == IF selectSettings(d).ok THEN selectSettings(d).row.default_keypair_id ELSE NULL

InitStore ==
    /\ oldJson \in LegacyFiles
    /\ db = Constructor(EmptyDisk, oldJson)
    /\ passphraseCache = NoCache
    /\ pc = "api"
    /\ now = 0
    /\ last = Plain("start", 0, "none")

\* db.insert('keypair' | 'contact', value)
DbInsert ==
    /\ \E table \in {"keypair", "contact"} :
         /\ db.sqlite_sequence[table] < MaxId
         /\ \E value \in InsertValues(table) :
              LET r == insert(db, table, value, now)
              IN  /\ db' = r.db
                  /\ last' = Done("db-insert", IF r.ok THEN r.row.id ELSE 0, r.err,
                                  [table |-> table, value |-> value, returned |-> r.row],
                                  FALSE, NoPassphrase)
    /\ UNCHANGED <<oldJson, passphraseCache, pc, now>>

\* db.insert('settings', updates)
DbInsertSettings ==
    /\ \E updates \in SettingsUpdates :
         LET r == insertSettings(db, updates)
         IN  /\ db' = r.db
             /\ last' = Done("db-insert-settings", 1, r.err,
                             [table |-> "settings", value |-> updates], FALSE, NoPassphrase)
    /\ UNCHANGED <<oldJson, passphraseCache, pc, now>>

\* db.update(table, {key: 'id', value}, updates)
DbUpdate ==
    /\ \E table \in {"keypair", "contact", "settings"}, id \in 1..MaxId :
       \E updates \in UpdateValues(table) :
         LET r == update(db, table, IdWhere(id), updates, now)
         IN  /\ db' = r.db
             /\ last' = Done("db-update", id, r.err,
                             [table |-> table, value |-> updates], FALSE, NoPassphrase)
    /\ UNCHANGED <<oldJson, passphraseCache, pc, now>>

\* db.delete(table, {key: 'id', value})
DbDelete ==
    /\ \E table \in {"keypair", "contact", "settings"}, id \in 1..MaxId :
         LET r == delete(db, table, IdWhere(id))
         IN  /\ db' = r.db
             /\ last' = Done("db-delete", id, r.err,
                             [table |-> table, before |-> DefaultKeypairId(db)],
                             FALSE, NoPassphrase)
    /\ UNCHANGED <<oldJson, passphraseCache, pc, now>>

\* new Db() on the file as it stands: the store is opened again
DbOpen ==
    /\ Constructor(db, oldJson).sqlite_sequence.keypair <= MaxId
    /\ Constructor(db, oldJson).sqlite_sequence.contact <= MaxId
    /\ db' = Constructor(db, oldJson)
    /\ last' = Plain("db-open", 0, "none")
    /\ UNCHANGED <<oldJson, passphraseCache, pc, now>>

NextStore == DbInsert \/ DbInsertSettings \/ DbUpdate \/ DbDelete \/ DbOpen

SpecStore == InitStore /\ [][NextStore]_vars

(***************************************************************************)
(* Queries: Db.select with a where clause on the name of the contacts, as  *)
(* the database test script calls it.                                      *)
(***************************************************************************)
\* "a", "A", "ab", "%", "_"
Texts == {1, 2, 13, 4, 5}

Comparators == {"is", "is not", "like", "not like"}

\* db.insert('contact', { name, ... })
DbInsertNamed ==
    /\ db.sqlite_sequence.contact < MaxId
    /\ \E name \in Texts, k \in Keys :
         LET value == [name |-> name, email |-> 1, fingerprint |-> FingerprintOf(k),
                       trusted |-> FALSE]
             r == insert(db, "contact", value, now)
         IN  /\ db' = r.db
             /\ last' = Done("db-insert", IF r.ok THEN r.row.id ELSE 0, r.err,
                             [table |-> "contact", value |-> value, returned |-> r.row],
                             FALSE, NoPassphrase)
    /\ UNCHANGED <<oldJson, passphraseCache, pc, now>>

\* db.select({ table: 'contact', where: { key: 'name', compare, value } })
DbSelect ==
    /\ \E compare \in Comparators, value \in Texts :
         LET where == [key |-> "name", compare |-> compare, value |-> value]
         IN  last' = Done("db-select", 0, "none",
                          [table |-> "contact", where |-> where,
                           returned |-> {r.id : r \in select(db, "contact", where)}],
                          FALSE, NoPassphrase)
    /\ UNCHANGED <<db, oldJson, passphraseCache, pc, now>>

\* the fields a query compares, and the values it compares them with
QueryFields(table) ==
    IF table = "keypair" THEN {"email", "is_default", "last_used_at"}
    ELSE {"name", "trusted", "notes", "last_verified_at"}

QueryValues == {NULL, 0, 1, 2}

\* db.select({ table, where: { key, compare: 'is', value } }) and the same
\* query with compare: 'is not'
DbSelectBoth ==
    /\ \E table \in {"keypair", "contact"}, value \in QueryValues :
         \E key \in QueryFields(table) :
           last' = Done("db-select-both", 0, "none",
                        [table |-> table, key |-> key, value |-> value,
                         is |-> {r.id : r \in
                                   select(db, table, [key |-> key, compare |-> "is",
                                                      value |-> value])},
                         isNot |-> {r.id : r \in
                                      select(db, table, [key |-> key, compare |-> "is not",
                                                         value |-> value])}],
                        FALSE, NoPassphrase)
    /\ UNCHANGED <<db, oldJson, passphraseCache, pc, now>>

NextQuery == DbInsertNamed \/ DbSelect \/ DbSelectBoth

SpecQuery == InitStore /\ [][NextQuery]_vars

(***************************************************************************)
(* Updates: Db.update with a predicate on any column and with an id among  *)
(* the fields to write.                                                    *)
(***************************************************************************)
WhereKeys == {"id", "name", "email"}

WhereValues == {1, 2, NULL}

\* the fields a caller hands to Db.update; the first ones carry an id
FieldsToWrite(table) ==
    IF table = "keypair"
    THEN {[id |-> 2, name |-> 2], [is_default |-> TRUE], [email |-> 2]}
    ELSE {[id |-> 2, name |-> 2], [trusted |-> TRUE], [notes |-> 1]}

\* db.update(table, { key, value }, updates)
DbUpdateWhere ==
    /\ \E table \in {"keypair", "contact"}, key \in WhereKeys, value \in WhereValues :
       \E updates \in FieldsToWrite(table) :
         LET r == update(db, table, [key |-> key, value |-> value], updates, now)
         IN  /\ db' = r.db
             /\ last' = Done("db-update-where", 0, r.err,
                             [table |-> table, where |-> [key |-> key, value |-> value],
                              value |-> updates],
                             FALSE, NoPassphrase)
    /\ UNCHANGED <<oldJson, passphraseCache, pc, now>>

NextUpdate == DbInsertNamed \/ DbUpdateWhere

SpecUpdate == InitStore /\ [][NextUpdate]_vars

(***************************************************************************)
(* The store calls of importKeypair, generateKeypair and                   *)
(* setDefaultKeypairById one at a time: the select that starts the         *)
(* sequence, one Db.update per selected row, then the Db.insert or the     *)
(* Db.update that ends it.  The process can be killed between two calls.   *)
(***************************************************************************)
\* a data.json with three keypairs, each flagged default
LegacyThreeDefaults ==
    [exists |-> TRUE,
     keypair |-> <<OldKeypair(1, TRUE), OldKeypair(2, TRUE),
                   [OldKeypair(3, TRUE) EXCEPT !.email = 3]>>,
     contact |-> <<>>]

InitCalls ==
    /\ oldJson \in LegacyFiles \cup {LegacyThreeDefaults}
    /\ db = Constructor(EmptyDisk, oldJson)
    /\ passphraseCache = NoCache
    /\ pc = "idle"
    /\ now = 0
    /\ last = Plain("start", 0, "none")

\* the operation has selected the rows it is going to unset
Begin(of, id, k, makeDefault, rows) ==
    /\ pc = "idle"
    /\ pc' = "calls"
    /\ last' = Done("begin", id, "none",
                    [of |-> of, k |-> k, makeDefault |-> makeDefault,
                     pending |-> rows, start |-> db],
                    FALSE, NoPassphrase)
    /\ UNCHANGED <<db, oldJson, passphraseCache, now>>

\* setDefaultKeypairById: const keypairs = this.db.select({ table: 'keypair' })
BeginSetDefault ==
    \E keypair \in db.keypair :
      Begin("set-default", keypair.id, keypair.public_key, TRUE,
            select(db, "keypair", NoWhere))

\* generateKeypair: allKeypairs = this.db.select({ table: 'keypair' })
BeginGenerate ==
    \E setAsDefault \in BOOLEAN, k \in Keys :
      Begin("generate", 0, k, setAsDefault,
            IF setAsDefault THEN select(db, "keypair", NoWhere) ELSE {})

\* importKeypair: currentDefaults = this.db.select({ where: is_default is 1 })
BeginImport ==
    \E makeDefault \in BOOLEAN, k \in Keys :
      Begin("import", 0, k, makeDefault,
            IF makeDefault THEN select(db, "keypair", IsDefaultWhere) ELSE {})

\* one turn of the loop:
\* this.db.update('keypair', { key: 'id', value: kp.id }, { is_default: false })
UnsetCall ==
    /\ pc = "calls"
    /\ last.arg.pending # {}
    /\ db' = update(db, "keypair", IdWhere(FirstRow(last.arg.pending).id),
                    [is_default |-> FALSE], now).db
    /\ last' = [last EXCEPT !.op = "store-call",
                            !.arg.pending = @ \ {FirstRow(@)}]
    /\ UNCHANGED <<oldJson, passphraseCache, pc, now>>

\* the call after the loop: the update that sets the new default, or the
\* insert of the generated or imported keypair
FinalStoreCall(d, a, id, t) ==
    CASE a.of = "set-default" ->
           update(d, "keypair", IdWhere(id), [is_default |-> TRUE], t).db
      [] a.of = "generate" ->
           insert(d, "keypair",
                  [name |-> DefaultName, email |-> EmailOf(a.k),
                   fingerprint |-> FingerprintOf(a.k),
                   public_key |-> a.k, private_key |-> a.k,
                   passphrase_protected |-> TRUE,
                   last_used_at |-> NULL, is_default |-> a.makeDefault], t).db
      [] a.of = "import" ->
           insert(d, "keypair",
                  [name |-> DefaultName, email |-> EmailOf(a.k),
                   fingerprint |-> FingerprintOf(a.k),
                   public_key |-> a.k, private_key |-> a.k,
                   passphrase_protected |-> (PassOf(a.k) # NoPassphrase),
                   last_used_at |-> NULL, is_default |-> a.makeDefault], t).db

FinalCall ==
    /\ pc = "calls"
    /\ last.arg.pending = {}
    /\ db' = FinalStoreCall(db, last.arg, last.id, now)
    /\ pc' = "idle"
    /\ last' = [last EXCEPT !.op = "store-call"]
    /\ UNCHANGED <<oldJson, passphraseCache, now>>

\* the process is killed between two calls and started again
Interrupt ==
    /\ pc = "calls"
    /\ db' = Constructor(db, oldJson)
    /\ pc' = "idle"
    /\ last' = Plain("interrupted", 0, "none")
    /\ UNCHANGED <<oldJson, passphraseCache, now>>

NextCalls ==
    BeginSetDefault \/ BeginGenerate \/ BeginImport \/ UnsetCall \/ FinalCall
    \/ Interrupt

SpecCalls == InitCalls /\ [][NextCalls]_vars

\* the operation as one step, applied to the store its sequence started from
WholeOperation(a, id, t) ==
    CASE a.of = "set-default" -> setDefaultKeypairById(a.start, id, t)
      [] a.of = "generate" ->
           generateKeypair(a.start, a.makeDefault, DefaultName, CorrectHorse,
                           CorrectHorse, a.k, t).db
      [] a.of = "import" ->
           StoreImported(a.start, DefaultName, PublicBlob(a.k), PrivateBlob(a.k),
                         extractPrivateKeyInfo(PrivateBlob(a.k), PassOf(a.k)),
                         a.makeDefault, t).db

\* a sequence that runs to its end stores what the operation stores
CallsMakeTheOperation ==
    [][(last'.op = "store-call" /\ pc' = "idle") =>
         db' = WholeOperation(last'.arg, last'.id, now)]_vars

(***************************************************************************)
(* The system keyring: listGpgKeys and parseGpgOutput.  A line of the      *)
(* --with-colons listing is its record type and the one field the parser   *)
(* reads from it: field 5 (the key id) of pub and sec, field 10 of fpr and *)
(* uid.  The name and the email are cut out of the uid and follow it.      *)
(***************************************************************************)
GpgRecords ==
    {[type |-> "pub", field |-> 1], [type |-> "pub", field |-> 2],
     [type |-> "sec", field |-> 1],
     [type |-> "fpr", field |-> 1], [type |-> "fpr", field |-> 2],
     [type |-> "uid", field |-> 1],
     [type |-> "sub", field |-> 1]}

\* let currentKey: Partial<SystemKey> | null = null
NoCurrentKey ==
    [open |-> FALSE, type |-> "none", keyId |-> NULL, fingerprint |-> NULL, uid |-> NULL]

\* if (currentKey && currentKey.fingerprint) keys.push(currentKey)
PushKey(keys, currentKey) ==
    IF currentKey.open /\ currentKey.fingerprint # NULL
    THEN Append(keys, [type |-> currentKey.type, keyId |-> currentKey.keyId,
                       fingerprint |-> currentKey.fingerprint, uid |-> currentKey.uid])
    ELSE keys

\* the loop of parseGpgOutput over the lines, and the push after it
RECURSIVE ParseLines(_, _, _, _)
ParseLines(lines, type, keys, currentKey) ==
    IF lines = <<>> THEN PushKey(keys, currentKey)
    ELSE LET line == Head(lines)
         IN  IF line.type \in {"pub", "sec"}
             THEN ParseLines(Tail(lines), type, PushKey(keys, currentKey),
                             [open |-> TRUE, type |-> type, keyId |-> line.field,
                              fingerprint |-> NULL, uid |-> NULL])
             ELSE IF line.type = "fpr" /\ currentKey.open
             THEN ParseLines(Tail(lines), type, keys,
                             [currentKey EXCEPT !.fingerprint = line.field])
             ELSE IF line.type = "uid" /\ currentKey.open
             THEN ParseLines(Tail(lines), type, keys,
                             [currentKey EXCEPT !.uid = line.field])
             ELSE ParseLines(Tail(lines), type, keys, currentKey)

parseGpgOutput(output, type) == ParseLines(output, type, <<>>, NoCurrentKey)

\* what gpg prints for the keyring
InitGpg ==
    /\ oldJson = NoOldJson
    /\ db = Constructor(EmptyDisk, oldJson)
    /\ passphraseCache = NoCache
    /\ pc = "gpg"
    /\ now = 0
    /\ \E n \in 0..MaxLines :
         \E output \in [1..n -> GpgRecords] :
           last = Done("gpg-output", 0, "none", [output |-> output], FALSE, NoPassphrase)

\* listGpgKeys: one listing, parsed as public or as secret keys
ListGpgKeys ==
    /\ pc = "gpg"
    /\ last.op = "gpg-output"
    /\ \E type \in {"public", "secret"} :
         last' = Done("list-gpg", 0, "none",
                      [output |-> last.arg.output,
                       keys |-> parseGpgOutput(last.arg.output, type)],
                      FALSE, NoPassphrase)
    /\ pc' = "listed"
    /\ UNCHANGED <<db, oldJson, passphraseCache, now>>

NextGpg == ListGpgKeys

SpecGpg == InitGpg /\ [][NextGpg]_vars

(***************************************************************************)
(* Properties.                                                             *)
(***************************************************************************)
AtMostOneDefault(d) == Cardinality({r \in d.keypair : r.is_default = 1}) <= 1

LifecycleOps == {"import", "import-gpg", "generate", "set-default", "rename", "delete"}

\* C1: in every state reached after a completed Key Lifecycle Manager
\* operation (import, generate, system-keyring import, set-default, rename,
\* delete) at most one keypair row has is_default = true.
C1_AtMostOneDefaultAfterLifecycleOp ==
    last.op \in LifecycleOps => AtMostOneDefault(db)

\* a keypair row with the email or the fingerprint of value is stored
DuplicateKeypair(d, value) ==
    \E r \in d.keypair :
       \/ "email" \in DOMAIN value /\ r.email = value.email
       \/ r.fingerprint = value.fingerprint

\* C2: an insert of a keypair whose email or fingerprint equals that of a
\* stored keypair fails with ConstraintViolation and leaves the store as it
\* was.
C2_DuplicateInsertRejected ==
    [][(/\ last'.op = "db-insert"
        /\ last'.arg.table = "keypair"
        /\ DuplicateKeypair(db, last'.arg.value))
       => (last'.err = "ConstraintViolation" /\ db' = db)]_vars

\* an insert was refused for its email alone: the fingerprint is new
C2_Witness ==
    /\ last.op = "db-insert"
    /\ last.arg.table = "keypair"
    /\ last.err = "ConstraintViolation"
    /\ "email" \in DOMAIN last.arg.value
    /\ \E r \in db.keypair : r.email = last.arg.value.email
    /\ \A r \in db.keypair : r.fingerprint # last.arg.value.fingerprint

SettingsSingleton ==
    /\ Cardinality(db.settings) = 1
    /\ \A r \in db.settings : r.id = 1

\* C3: the settings table holds exactly one row, with id = 1, in every
\* reachable state (after the first initialization, after each opening of
\* the store, after every settings insert or update), and a delete on
\* settings fails and removes nothing.
C3_SettingsSingleton ==
    /\ []SettingsSingleton
    /\ [][(last'.op = "db-delete" /\ last'.arg.table = "settings")
          => (last'.err = "Error" /\ db' = db)]_vars

\* a delete on settings was refused, the row carrying a changed value
C3_Witness ==
    /\ last.op = "db-delete"
    /\ last.arg.table = "settings"
    /\ last.err = "Error"
    /\ \E r \in db.settings : r.id = 1 /\ r.auto_sign_messages = 1

NoDanglingDefault ==
    \A s \in db.settings :
       s.default_keypair_id # NULL => \E k \in db.keypair : k.id = s.default_keypair_id

\* C4: deleting the keypair settings.default_keypair_id refers to sets
\* default_keypair_id to null; default_keypair_id is at no time the id of a
\* keypair that is not stored.
C4_DeleteNullsDefaultKeypairId ==
    /\ []NoDanglingDefault
    /\ [][(/\ last'.op = "db-delete"
           /\ last'.arg.table = "keypair"
           /\ last'.err = "none"
           /\ DefaultKeypairId(db) = last'.id)
          => DefaultKeypairId(db') = NULL]_vars

\* the referenced keypair was deleted, another keypair still stored
C4_Witness ==
    /\ last.op = "db-delete"
    /\ last.arg.table = "keypair"
    /\ last.arg.before = last.id
    /\ DefaultKeypairId(db) = NULL
    /\ \A k \in db.keypair : k.id # last.id
    /\ db.keypair # {}

ContactById(d, id) == CHOOSE c \in d.contact : c.id = id

\* C5: toggle-trust from false to true sets trusted and sets
\* last_verified_at to the current time; from true to false it clears
\* trusted and leaves last_verified_at as it was; no step resets a non-null
\* last_verified_at to null.
C5_ToggleTrustTimestamp ==
    /\ [][last'.op = "toggle-trust" =>
            LET old == ContactById(db, last'.id)
                new == ContactById(db', last'.id)
            IN  /\ old.trusted = 0 => (new.trusted = 1 /\ new.last_verified_at = now)
                /\ old.trusted = 1 =>
                     (new.trusted = 0 /\ new.last_verified_at = old.last_verified_at)]_vars
    /\ [][\A c \in db.contact : \A c2 \in db'.contact :
            (c2.id = c.id /\ c.last_verified_at # NULL) => c2.last_verified_at # NULL]_vars

\* trust was withdrawn from a contact verified at an earlier time
C5_Witness ==
    /\ last.op = "toggle-trust"
    /\ \E c \in db.contact :
         /\ c.id = last.id
         /\ c.trusted = 0
         /\ c.last_verified_at # NULL
         /\ c.last_verified_at # now

\* C6: with a passphrase-protected default keypair, a decryption with no
\* cache entry for it prompts; a correct passphrase is cached under the
\* keypair's id, a wrong one fails with IncorrectPassphrase and leaves the
\* cache as it was (so the next decryption prompts again); a decryption with
\* a cache entry does not prompt and uses the cached value; entries stay in
\* the cache for the rest of the run.
C6_PassphraseCache ==
    /\ [][(/\ last'.op = "decrypt"
           /\ hasDefaultKeypair(db)
           /\ getDefaultKeypair(db).passphrase_protected)
          => LET kp == getDefaultKeypair(db)
             IN  IF kp.id \in DOMAIN passphraseCache
                 THEN /\ ~last'.prompted
                      /\ last'.used = passphraseCache[kp.id]
                      /\ passphraseCache' = passphraseCache
                 ELSE /\ last'.prompted
                      /\ IF unlock(kp.private_key, last'.used)
                         THEN /\ last'.err # "IncorrectPassphrase"
                              /\ passphraseCache' = CacheSet(passphraseCache, kp.id, last'.used)
                         ELSE /\ last'.err = "IncorrectPassphrase"
                              /\ passphraseCache' = passphraseCache]_vars
    /\ [][(pc' # "exited" /\ last'.op # "start")
          => \A id \in DOMAIN passphraseCache :
               id \in DOMAIN passphraseCache' /\ passphraseCache'[id] = passphraseCache[id]]_vars

\* a decryption went through on the cached passphrase, without a prompt
C6_Witness ==
    /\ last.op = "decrypt"
    /\ last.err = "none"
    /\ ~last.prompted
    /\ last.used # NoPassphrase
    /\ last.id \in DOMAIN passphraseCache
    /\ passphraseCache[last.id] = last.used

\* C7: on every exit path (Exit of the main menu, Exit of the next-action
\* menu, Exit of the first-time-setup menu, SIGINT, an error escaping main)
\* the passphrase cache is empty when the process terminates.
C7_CacheClearedOnExit ==
    pc = "exited" => DOMAIN passphraseCache = {}

\* C8: when verifyKeyPair returns false during an import, the operation
\* fails with KeyMismatch and writes nothing to the store.
C8_ImportKeyMismatch ==
    [][(/\ last'.op = "import"
        /\ last'.arg.publicKey.marker = "PUBLIC"
        /\ last'.arg.privateKey.marker = "PRIVATE"
        /\ ~verifyKeyPair(last'.arg.publicKey, last'.arg.privateKey))
       => (last'.err = "KeyMismatch" /\ db' = db)]_vars

\* an import of two well-formed keys of different fingerprints was refused
C8_Witness ==
    /\ last.op = "import"
    /\ last.err = "KeyMismatch"
    /\ last.arg.publicKey.key # 0
    /\ last.arg.privateKey.key # 0
    /\ last.arg.publicKey.key # last.arg.privateKey.key

\* C9: a system-keyring import inserts a keypair only after verifyKeyPair
\* returned true on the exported blobs; exports that do not match persist
\* nothing.
C9_GpgImportVerified ==
    [][(last'.op = "import-gpg"
        /\ ~verifyKeyPair(last'.arg.publicKey, last'.arg.privateKey))
       => db' = db]_vars

DefaultFlags(d) == {<<r.id, r.is_default>> : r \in d.keypair}

\* C10: set-default on a stored keypair k leaves k the only row with
\* is_default = true, and set-default(k) applied again right after yields
\* the same is_default flag on every row, also when k was the default
\* already.
C10_SetDefaultIdempotent ==
    [][last'.op = "set-default" =>
         /\ \A r \in db'.keypair : (r.is_default = 1) <=> (r.id = last'.id)
         /\ DefaultFlags(setDefaultKeypairById(db', last'.id, now')) = DefaultFlags(db')]_vars

\* set-default was applied to the keypair that was the default, among two
C10_Witness ==
    /\ last.op = "set-default"
    /\ last.arg.is_default
    /\ Cardinality(db.keypair) >= 2
    /\ \E r \in db.keypair : r.id = last.id /\ r.is_default = 1

Ids(rows) == {r.id : r \in rows}

\* C11: a keypair or contact row is removed only by a delete whose
\* confirmation prompt was answered yes; the delete returns true exactly
\* when it removed the row, and returns false when the user declined, the
\* store then being unchanged.
C11_DeleteNeedsConfirmation ==
    /\ [][last'.op = "delete" =>
            /\ last'.arg.deleted <=> (last'.id \in Ids(db.keypair) \ Ids(db'.keypair))
            /\ last'.arg.deleted <=> last'.arg.confirm
            /\ ~last'.arg.confirm => db' = db]_vars
    /\ [][last'.op = "delete-contact" =>
            /\ last'.arg.deleted <=> (last'.id \in Ids(db.contact) \ Ids(db'.contact))
            /\ last'.arg.deleted <=> last'.arg.confirm
            /\ ~last'.arg.confirm => db' = db]_vars
    /\ [][(~(Ids(db.keypair) \subseteq Ids(db'.keypair))
           \/ ~(Ids(db.contact) \subseteq Ids(db'.contact)))
          => (last'.op \in {"delete", "delete-contact"} /\ last'.arg.confirm)]_vars

\* a delete of a keypair was declined and the row is still stored
C11_Witness ==
    /\ last.op = "delete"
    /\ ~last.arg.confirm
    /\ ~last.arg.deleted
    /\ last.id \in Ids(db.keypair)

\* C12: when no keypair is the default, encrypt-to-self and decrypt each
\* fail with NoDefaultKeypair without a passphrase prompt, leave the store
\* and the passphrase cache as they were, and the session goes on to the
\* next-action menu.
C12_NoDefaultKeypair ==
    [][(last'.op \in {"encrypt", "decrypt"} /\ ~hasDefaultKeypair(db))
       => /\ last'.err = "NoDefaultKeypair"
          /\ ~last'.prompted
          /\ db' = db
          /\ passphraseCache' = passphraseCache
          /\ pc' = "next"]_vars

\* an encryption failed for want of a default among the stored keypairs
C12_Witness ==
    /\ last.op = "encrypt"
    /\ last.err = "NoDefaultKeypair"
    /\ pc = "next"
    /\ db.keypair # {}

AutoIncrementTables == {"keypair", "contact"}

\* C13: every successful insert of a keypair or contact assigns an id
\* greater than every id assigned earlier in that table (the largest of
\* which sqlite_sequence holds), so no id is used twice, also after the row
\* that held it, the row with the highest id included, was deleted.
C13_IdsNeverReused ==
    /\ [](\A t \in AutoIncrementTables : \A id \in Ids(db[t]) : id <= db.sqlite_sequence[t])
    /\ [][\A t \in AutoIncrementTables :
            /\ db'.sqlite_sequence[t] >= db.sqlite_sequence[t]
            /\ \A id \in Ids(db'[t]) \ Ids(db[t]) : id > db.sqlite_sequence[t]]_vars
    /\ [][(last'.op = "db-insert" /\ last'.err = "none")
          => /\ last'.id > db.sqlite_sequence[last'.arg.table]
             /\ last'.id \in Ids(db'[last'.arg.table]) \ Ids(db[last'.arg.table])]_vars

\* an insert after the delete of the row with the highest id: id 2 is
\* assigned while no row holds id 1
C13_Witness ==
    /\ last.op = "db-insert"
    /\ last.err = "none"
    /\ last.id = 2
    /\ Ids(db[last.arg.table]) = {2}

\* typeof value === 'boolean'
IsBoolean(value) == ToString(value) \in {"TRUE", "FALSE"}

\* the row with the id as select returns it
Selected(d, table, id) ==
    select(d, table, [key |-> "id", compare |-> "is", value |-> id])

\* C14: every boolean field of a row the Record Store hands to a caller, in
\* the rows returned by select and in the row returned by insert, is true or
\* false and equals the boolean last written for the field; the stored 0/1
\* does not appear in a returned row.
C14_BooleansRoundTrip ==
    /\ [](\A t \in AutoIncrementTables : \A r \in select(db, t, NoWhere) :
            \A c \in BooleanColumns(t) : IsBoolean(r[c]))
    /\ [](selectSettings(db).ok =>
            \A c \in BooleanColumns("settings") : IsBoolean(selectSettings(db).row[c]))
    /\ [][(last'.op = "db-insert" /\ last'.err = "none") =>
            LET t == last'.arg.table
                written == BooleanColumns(t) \cap DOMAIN last'.arg.value
            IN  /\ \A c \in BooleanColumns(t) : IsBoolean(last'.arg.returned[c])
                /\ \A c \in written :
                     ToString(last'.arg.returned[c]) = ToString(last'.arg.value[c])
                /\ \A r \in Selected(db', t, last'.id) : \A c \in written :
                     ToString(r[c]) = ToString(last'.arg.value[c])]_vars
    /\ [][(last'.op = "db-update" /\ last'.err = "none") =>
            LET t == last'.arg.table
            IN  \A r \in Selected(db', t, last'.id) :
                  \A c \in BooleanColumns(t) \cap DOMAIN last'.arg.value :
                     ToString(r[c]) = ToString(last'.arg.value[c])]_vars

\* the value Db.update stores for a field of its updates
StoredValue(table, updates, c) ==
    IF c \in BooleanColumns(table) THEN boolToInt(updates[c]) ELSE updates[c]

\* C15: an update of keypair, contact or settings whose equality predicate
\* matches no row completes without an error and leaves every row as it
\* was; when rows match (and no constraint refuses the new values), every
\* matching row and only the matching rows receive the new field values.
C15_UpdateWhere ==
    [][last'.op = "db-update" =>
         LET t == last'.arg.table
             updates == last'.arg.value
             matching == {r \in db[t] : r.id = last'.id}
         IN  /\ matching = {} => (last'.err = "none" /\ db' = db)
             /\ (matching # {} /\ last'.err # "ConstraintViolation") =>
                  /\ last'.err = "none"
                  /\ db'[t] =
                       {IF r \in matching
                        THEN [c \in DOMAIN r |->
                                IF c \in DOMAIN updates THEN StoredValue(t, updates, c)
                                ELSE r[c]]
                        ELSE r : r \in db[t]}
                  /\ \A other \in {"keypair", "contact", "settings"} \ {t} :
                       db'[other] = db[other]]_vars

\* String.includes: value is a literal, case-sensitive substring of text
Includes(text, value) ==
    \E i \in 1..(Len(Chars(text)) + 1) :
       /\ i + Len(Chars(value)) - 1 <= Len(Chars(text))
       /\ SubSeq(Chars(text), i, i + Len(Chars(value)) - 1) = Chars(value)

\* C16: a query with comparator contains returns exactly the rows whose
\* field holds the value as a literal, case-sensitive substring, not-contains
\* exactly the rows whose field does not, equals and not-equals compare for
\* exact equality; a query matching no row returns the empty result.
C16_Comparators ==
    [][last'.op = "db-select" =>
         LET where == last'.arg.where
             Expected(r) ==
                 CASE where.compare = "is" -> r[where.key] = where.value
                   [] where.compare = "is not" -> r[where.key] # where.value
                   [] where.compare = "like" -> Includes(r[where.key], where.value)
                   [] where.compare = "not like" -> ~Includes(r[where.key], where.value)
         IN  /\ last'.err = "none"
             /\ last'.arg.returned = {r.id : r \in {x \in db.contact : Expected(x)}}]_vars

\* C17: generate stores a keypair only when the entered passphrase has at
\* least 8 characters and the confirmation entry equals it, and every
\* keypair row generate creates has passphrase_protected = true.
C17_GeneratePassphrasePolicy ==
    [][last'.op = "generate" =>
         /\ (Len(last'.arg.passphrase) < 8
             \/ last'.arg.passphraseConfirm # last'.arg.passphrase) => db' = db
         /\ \A r \in db'.keypair :
              r.id \notin Ids(db.keypair) => r.passphrase_protected = 1]_vars

\* generate stored a protected keypair for a confirmed passphrase of 8 or
\* more characters
C17_Witness ==
    /\ last.op = "generate"
    /\ last.err = "none"
    /\ Len(last.arg.passphrase) >= 8
    /\ last.arg.passphraseConfirm = last.arg.passphrase
    /\ \E r \in db.keypair :
         r.id = db.sqlite_sequence.keypair /\ r.passphrase_protected = 1

Fingerprints(rows) == {r.fingerprint : r \in rows}

\* C18: delete is irreversible: a keypair row leaves the store only by a
\* confirmed delete, and after it no row with its fingerprint is in the
\* store again, a restart included, unless import, generate or
\* system-keyring import stores the key again; that is, no other step
\* brings a fingerprint into the keypair table.
C18_DeleteIrreversible ==
    [][Fingerprints(db'.keypair) \ Fingerprints(db.keypair) # {}
       => last'.op \in {"import", "import-gpg", "generate"}]_vars

CryptoOps == {"encrypt", "encrypt-for", "decrypt"}

C20_DefaultsBetweenCalls ==
    [][(last'.op = "store-call" /\ last'.arg.makeDefault) =>
         AtMostOneDefault(db')]_vars

\* the same for the sequences that start from a store with at most one
\* default, whichever they are
DefaultsBetweenCallsFromOne ==
    [][(last'.op = "store-call" /\ AtMostOneDefault(last'.arg.start)) =>
         AtMostOneDefault(db')]_vars

\* killed after the unset calls and before the last call: no default is left
C20_Witness ==
    /\ last.op = "interrupted"
    /\ db.keypair # {}
    /\ \A r \in db.keypair : r.is_default = 0

\* C21: every entry (id, passphrase) of the passphrase cache is stored by a
\* step in which that passphrase unlocks the private key of the keypair with
\* that id, and an entry, once stored, is neither removed nor overwritten
\* until the whole cache is cleared.
C21_CacheEntries ==
    [][/\ \A id \in DOMAIN passphraseCache' \ DOMAIN passphraseCache :
            \E r \in db.keypair :
               r.id = id /\ unlock(r.private_key, passphraseCache'[id])
       /\ passphraseCache' # NoCache =>
            \A id \in DOMAIN passphraseCache :
               /\ id \in DOMAIN passphraseCache'
               /\ passphraseCache'[id] = passphraseCache[id]]_vars

\* a second passphrase was cached while the first one was kept
C21_Witness ==
    /\ Cardinality(DOMAIN passphraseCache) = 2
    /\ last.op = "decrypt"
    /\ last.prompted

\* C22: opening the store (schema initialization, then the migration of
\* data.json, at every start) leaves at most one keypair with
\* is_default = true, for every legacy file and every prior state of the
\* SQLite file.
C22_OpenKeepsOneDefault ==
    last.op = "start" => AtMostOneDefault(db)

\* a later start, over a store that was used before, with two defaults
C22_Witness ==
    /\ last.op = "start"
    /\ \E r \in db.keypair : r.last_used_at # NULL
    /\ ~AtMostOneDefault(db)

InsertingOps == {"import", "import-gpg", "generate"}

\* C23: an import, generate or system-keyring import whose insert fails
\* leaves the store as it was before the operation started; the keypair
\* that was the default is still the default.
C23_FailedInsertKeepsStore ==
    [][(last'.op \in InsertingOps /\ last'.err = "ConstraintViolation") =>
         db' = db]_vars

\* the insert of an operation failed and no stored keypair is the default
C23_Witness ==
    /\ last.op \in InsertingOps
    /\ last.err = "ConstraintViolation"
    /\ db.keypair # {}
    /\ \A r \in db.keypair : r.is_default = 0

Verified(d) == \A r \in d.contact : r.trusted = 1 => r.last_verified_at # NULL

\* C24: every contact with trusted = true has a non-null last_verified_at,
\* whatever set the flag (toggle-trust, the migration of the legacy
\* contacts, a direct Db.update).
C24_TrustedIsVerified ==
    Verified(db)

\* a toggle has marked one contact trusted, with its timestamp, and another
\* trusted contact has none
C24_Witness ==
    /\ last.op = "toggle-trust"
    /\ \E r \in db.contact : r.id = last.id /\ r.trusted = 1 /\ r.last_verified_at # NULL
    /\ \E r \in db.contact : r.trusted = 1 /\ r.last_verified_at = NULL

\* C25: a passphrase taken from the cache for keypair id k is applied to
\* the private key it was validated against: while an entry for k stays in
\* the cache, no operation makes id k denote a row with other private key
\* material, neither by changing the row nor by giving the id of a deleted
\* row to a new one; the cached passphrase unlocks the key stored under k.
C25_CachedIdKeepsKey ==
    /\ [](\A r \in db.keypair :
            r.id \in DOMAIN passphraseCache =>
              unlock(r.private_key, passphraseCache[r.id]))
    /\ [][\A id \in DOMAIN passphraseCache \cap DOMAIN passphraseCache' :
            /\ \A r \in db.keypair, r2 \in db'.keypair :
                 (r.id = id /\ r2.id = id) => r2.private_key = r.private_key
            /\ id \notin Ids(db.keypair) => id \notin Ids(db'.keypair)]_vars

\* the keypair of a cached passphrase was deleted and another keypair was
\* stored afterwards, under another id
C25_Witness ==
    /\ last.op \in InsertingOps
    /\ last.err = "none"
    /\ \E id \in DOMAIN passphraseCache : id \notin Ids(db.keypair)
    /\ db.keypair # {}

\* C26: for every table, field and value the rows select returns with
\* comparator 'is' and the rows it returns with 'is not' are disjoint and
\* together are all rows of the table, also for rows whose field is null.
C26_IsAndIsNotPartition ==
    [][last'.op = "db-select-both" =>
         /\ last'.arg.is \cap last'.arg.isNot = {}
         /\ last'.arg.is \cup last'.arg.isNot = Ids(db[last'.arg.table])]_vars

\* on a field that is null in no row the two queries split the table
C26_Witness ==
    /\ last.op = "db-select-both"
    /\ last.arg.is # {}
    /\ last.arg.isNot # {}
    /\ last.arg.is \cup last.arg.isNot = Ids(db[last.arg.table])

\* C27: Db.update never changes the id of a row (an id among the update
\* fields is ignored), changes no row that does not match the equality
\* predicate, and on a matching row changes only the fields named in the
\* update (updated_at, which it also writes, is not kept in the rows here).
C27_UpdateFrame ==
    [][last'.op = "db-update-where" =>
         LET t == last'.arg.table
             where == last'.arg.where
             updates == last'.arg.value
             matching == {r \in db[t] :
                            r[where.key] # NULL /\ where.value # NULL
                            /\ r[where.key] = where.value}
         IN  /\ Ids(db'[t]) = Ids(db[t])
             /\ Cardinality(db'[t]) = Cardinality(db[t])
             /\ \A r \in db[t] \ matching : r \in db'[t]
             /\ \A r \in matching :
                  \E r2 \in db'[t] :
                     /\ r2.id = r.id
                     /\ \A c \in DOMAIN r \ (DOMAIN updates \ {"id"}) : r2[c] = r[c]
             /\ \A other \in {"keypair", "contact", "settings", "sqlite_sequence"} \ {t} :
                  db'[other] = db[other]]_vars

\* an update that carried an id and matched two rows by name wrote both
C27_Witness ==
    /\ last.op = "db-update-where"
    /\ last.err = "none"
    /\ "id" \in DOMAIN last.arg.value
    /\ last.arg.where.key = "name"
    /\ Cardinality({r \in db[last.arg.table] : r.name = 2}) = 2
    /\ Ids(db[last.arg.table]) = {1, 2}

\* C28: whenever main() shows the encrypt / decrypt / manage-keys menu a
\* keypair with is_default = true is stored: first-time setup does not hand
\* control to the menu before such a keypair is stored.
C28_MenuHasDefault ==
    pc = "menu" => hasDefaultKeypair(db)

\* first-time setup stored a default keypair and the menu is shown
C28_Witness ==
    /\ pc = "menu"
    /\ last.op \in InsertingOps
    /\ last.err = "none"
    /\ Cardinality(db.keypair) = 1
    /\ hasDefaultKeypair(db)

\* C29: settings.default_keypair_id agrees with the is_default flags: it is
\* the id of the keypair with is_default = true when there is one, and null
\* when no keypair is the default.
C29_SettingsAgreeWithFlags ==
    LET defaults == {r \in db.keypair : r.is_default = 1}
    IN  IF defaults = {} THEN DefaultKeypairId(db) = NULL
        ELSE DefaultKeypairId(db) \in Ids(defaults)

\* set-default has made a keypair the default and the settings row names
\* none
C29_Witness ==
    /\ last.op = "set-default"
    /\ \E r \in db.keypair : r.id = last.id /\ r.is_default = 1
    /\ DefaultKeypairId(db) = NULL

\* the lines that start a key, in input order
KeyStarts(output) ==
    SelectSeq([i \in 1..Len(output) |-> i], LAMBDA i : output[i].type \in {"pub", "sec"})

\* the fpr records between a pub/sec record and the next one
FprsOf(output, i) ==
    {j \in (i + 1)..Len(output) :
       /\ output[j].type = "fpr"
       /\ \A m \in (i + 1)..j : output[m].type \notin {"pub", "sec"}}

Least(S) == CHOOSE j \in S : \A m \in S : j <= m

\* C30: parseGpgOutput returns one entry per pub/sec record that has a
\* fingerprint, in input order, and the fingerprint of each entry is the
\* first fpr record that follows its pub/sec record (the primary key's),
\* not the fingerprint of a later subkey.
C30_PrimaryFingerprint ==
    [][last'.op = "list-gpg" =>
         LET output == last'.arg.output
             keys == last'.arg.keys
             withFpr == SelectSeq(KeyStarts(output), LAMBDA i : FprsOf(output, i) # {})
         IN  /\ Len(keys) = Len(withFpr)
             /\ \A n \in 1..Len(keys) :
                  /\ keys[n].keyId = output[withFpr[n]].field
                  /\ keys[n].fingerprint = output[Least(FprsOf(output, withFpr[n]))].field]_vars

\* a listing of a key with a subkey, each with its fingerprint record
C30_Witness ==
    /\ last.op = "list-gpg"
    /\ Len(last.arg.keys) = 1
    /\ \E i \in 1..Len(last.arg.output) : last.arg.output[i].type = "sub"
    /\ Cardinality({i \in 1..Len(last.arg.output) : last.arg.output[i].type = "fpr"}) = 2

=============================================================================
